---- MODULE Spec2Model ----
(***************************************************************************)
(* Model of src/profile/gpu_profile.cpp: a single-shot OpenCL pipeline     *)
(* (device selection, program build, buffer staging, dispatch with         *)
(* profiling, readback and verification).  Every device-API call is an     *)
(* input of the model: its status is drawn from StatusSet.  The sequence   *)
(* `calls` records the API calls in the order the program issues them and  *)
(* `printed` records what it writes to standard output.                    *)
(***************************************************************************)
EXTENDS Integers, Sequences, FiniteSets, TLC

VARIABLES pc, term, status, bstatus, program_handle, h, event,
          output_data, i, calls, printed

vars == <<pc, term, status, bstatus, program_handle, h, event,
          output_data, i, calls, printed>>

\* ---------------------------------------------------------------- bounds
\* Number of array elements of the model (the program uses 100000).
ARRAY_SIZE == 3

\* ------------------------------------------------------------- constants
CL_DEVICE_NOT_FOUND == -1
CL_OUT_OF_RESOURCES == -5
BIAS == 10000
TOLERANCE == 100000

\* Statuses a device-API call may return (0 is CL_SUCCESS).
StatusSet == {0, CL_DEVICE_NOT_FOUND, CL_OUT_OF_RESOURCES}

Index == 0 .. (ARRAY_SIZE - 1)

\* Runtime's handle fields, all null after `Runtime runtime{}`.
Handles == {"device", "context", "program", "kernel", "queue",
            "input_buffer", "bias_buffer", "output_buffer"}

\* ------------------------------------------------------- pure functions
\* check_status: true when the call prints the message and exits with 1.
check_status(st) == st < 0

\* init_device line 54: the condition under which the CPU class is tried.
FallbackToCPU_any(st) == st < 0
FallbackToCPU(st) == st = CL_DEVICE_NOT_FOUND

\* Bitwise AND / OR of two's-complement integers (the `|=` of lines 158-159).
RECURSIVE BitAnd(_, _)
BitAnd(a, b) ==
    IF a = 0 \/ b = 0 THEN 0
    ELSE IF a = -1 THEN b
    ELSE IF b = -1 THEN a
    ELSE 2 * BitAnd(a \div 2, b \div 2)
         + (IF a % 2 = 1 /\ b % 2 = 1 THEN 1 ELSE 0)

RECURSIVE BitOr(_, _)
BitOr(a, b) ==
    IF a = 0 THEN b
    ELSE IF b = 0 THEN a
    ELSE IF a = -1 \/ b = -1 THEN -1
    ELSE 2 * BitOr(a \div 2, b \div 2)
         + (IF a % 2 = 1 \/ b % 2 = 1 THEN 1 ELSE 0)

\* Host arrays filled by the loop of lines 140-143.
input_data(k) == k
bias_data(k) == BIAS

\* abs() of line 206 (the values compared are whole numbers).
abs(x) == IF x < 0 THEN -x ELSE x

\* Line 206: the element at k fails the comparison.
Mismatch(out, k) == abs((bias_data(k) + input_data(k)) - out) > TOLERANCE

\* What the device may hand back for element k: the sum, the difference
\* (a kernel that subtracts), or a value far from both.
DeviceValues(k) == {input_data(k) + bias_data(k),
                    input_data(k) - bias_data(k),
                    input_data(k) + bias_data(k) + TOLERANCE + 1}

\* Contents of the uninitialized stack array output_data (line 138).
StackGarbage == {0, BIAS + TOLERANCE + ARRAY_SIZE + 1}

Call(fn, arg, st) == [fn |-> fn, arg |-> arg, st |-> st]
Line(text, args) == [text |-> text, args |-> args]

\* A handle a create call returns: null when it reports a negative status.
Created(st) == IF st < 0 THEN "null" ELSE "live"

\* clRelease* on a field: a live handle becomes released.
Release(hs, name) ==
    [hs EXCEPT ![name] = IF hs[name] = "live" THEN "released" ELSE hs[name]]

\* ------------------------------------------------------------------ Init
Init ==
    /\ pc = "init_device"
    /\ term = "running"
    /\ status \in StatusSet
    /\ bstatus \in StatusSet
    /\ program_handle = "unset"
    /\ h = [n \in Handles |-> "null"]
    /\ event = "unset"
    /\ output_data \in [Index -> StackGarbage]
    /\ i = 0
    /\ calls = <<>>
    /\ printed = <<>>

\* check_status(st, msg) followed by the statement at `next`.
CheckThen(st, msg, next) ==
    IF check_status(st)
    THEN /\ term' = "exit1"
         /\ printed' = Append(printed, Line(msg, <<>>))
         /\ pc' = pc
    ELSE /\ term' = term
         /\ printed' = printed
         /\ pc' = next


Running(at) == pc = at /\ term = "running"

\* --------------------------------------------------- init_device (38-63)
init_device ==
    /\ Running("init_device")
    /\ \E ps \in StatusSet, gs \in StatusSet, cs \in StatusSet :
        LET plat == <<Call("clGetPlatformIDs", "", ps)>>
            gpu  == <<Call("clGetDeviceIDs", "GPU", gs)>>
            cpu  == <<Call("clGetDeviceIDs", "CPU", cs)>>
            last == IF FallbackToCPU(gs) THEN cs ELSE gs
        IN  IF ps < 0
            THEN /\ calls' = calls \o plat
                 /\ printed' = Append(printed, Line("could not get a platform", <<>>))
                 /\ term' = "exit1"
                 /\ UNCHANGED <<pc, h>>
            ELSE /\ calls' = calls \o plat \o gpu
                              \o (IF FallbackToCPU(gs) THEN cpu ELSE <<>>)
                 /\ IF last < 0
                    THEN /\ printed' = Append(printed, Line("no devices found", <<>>))
                         /\ term' = "exit1"
                         /\ UNCHANGED <<pc, h>>
                    ELSE /\ h' = [h EXCEPT !["device"] = "live"]
                         /\ pc' = "create_context"
                         /\ UNCHANGED <<term, printed>>
    /\ UNCHANGED <<status, bstatus, program_handle, event, output_data, i>>

\* A create call of main that stores the handle in a Runtime field and is
\* followed by check_status(status, msg).
CreateChecked(at, fn, field, msg, next) ==
    /\ Running(at)
    /\ \E st \in StatusSet :
        /\ status' = st
        /\ calls' = Append(calls, Call(fn, field, st))
        /\ h' = [h EXCEPT ![field] = Created(st)]
        /\ CheckThen(st, msg, next)
    /\ UNCHANGED <<bstatus, program_handle, event, output_data, i>>

\* Lines 121-122.
create_context ==
    CreateChecked("create_context", "clCreateContext", "context",
                  "create context failed", "fopen")

\* --------------------------------------------------- build_program (66-108)
\* Lines 75-76: fopen, then check_status on the local `status`, which has
\* not been assigned: its value is whatever the stack holds (bstatus).
open_source ==
    /\ Running("fopen")
    /\ \E ok \in BOOLEAN :
        program_handle' = IF ok THEN "open" ELSE "null"
    /\ CheckThen(bstatus, "find opencl kernel failed", "read_source")
    /\ UNCHANGED <<status, bstatus, h, event, output_data, i, calls>>

\* Lines 78-84: fseek/ftell/rewind/fread/fclose on program_handle.  With a
\* null handle the behaviour is undefined: the process is killed, or the
\* calls fail and execution goes on with an unspecified source text.
read_source ==
    /\ Running("read_source")
    /\ calls' = Append(calls, Call("fseek", program_handle, 0))
    /\ IF program_handle = "open"
       THEN /\ program_handle' = "closed"
            /\ pc' = "create_program"
            /\ term' = term
       ELSE /\ program_handle' = program_handle
            /\ \/ term' = "crash" /\ pc' = pc
               \/ term' = term /\ pc' = "create_program"
    /\ UNCHANGED <<status, bstatus, h, event, output_data, i, printed>>

\* Lines 86-89.
create_program ==
    /\ Running("create_program")
    /\ \E st \in StatusSet :
        /\ bstatus' = st
        /\ calls' = Append(calls, Call("clCreateProgramWithSource", "program", st))
        /\ h' = [h EXCEPT !["program"] = Created(st)]
        /\ CheckThen(st, "create program failed", "build_program")
    /\ UNCHANGED <<status, program_handle, event, output_data, i>>

\* Lines 92-107: on a failed build the log is printed and exit(1) called.
build_program ==
    /\ Running("build_program")
    /\ \E st \in StatusSet :
        /\ bstatus' = st
        /\ IF st < 0
           THEN /\ calls' = calls \o <<Call("clBuildProgram", "program", st),
                                       Call("clGetProgramBuildInfo", "size", 0),
                                       Call("clGetProgramBuildInfo", "log", 0)>>
                /\ printed' = Append(printed, Line("build log", <<>>))
                /\ term' = "exit1"
                /\ pc' = pc
           ELSE /\ calls' = Append(calls, Call("clBuildProgram", "program", st))
                /\ pc' = "create_queue"
                /\ UNCHANGED <<term, printed>>
    /\ UNCHANGED <<status, program_handle, h, event, output_data, i>>

\* Lines 127-128.
create_queue ==
    CreateChecked("create_queue", "clCreateCommandQueue", "queue",
                  "create command queue failed", "create_kernel")

\* Lines 131-132.
create_kernel ==
    CreateChecked("create_kernel", "clCreateKernel", "kernel",
                  "create kernel failed", "create_input")

\* ------------------------------------------------------ buffers (146-153)
\* A clCreateBuffer whose status is overwritten by the next statement.
CreateUnchecked(at, field, next) ==
    /\ Running(at)
    /\ \E st \in StatusSet :
        /\ status' = st
        /\ calls' = Append(calls, Call("clCreateBuffer", field, st))
        /\ h' = [h EXCEPT ![field] = Created(st)]
    /\ pc' = next
    /\ UNCHANGED <<term, bstatus, program_handle, event, output_data, i, printed>>

create_input == CreateUnchecked("create_input", "input_buffer", "create_bias")

create_bias == CreateUnchecked("create_bias", "bias_buffer", "create_output")

\* Lines 150-153: the only check_status of the three creations.
create_output ==
    CreateChecked("create_output", "clCreateBuffer", "output_buffer",
                  "create buffer failed", "set_arg0")


\* ------------------------------------------------- kernel args (157-161)
set_arg0 ==
    /\ Running("set_arg0")
    /\ \E st \in StatusSet :
        /\ status' = st
        /\ calls' = Append(calls, Call("clSetKernelArg", "0", st))
    /\ pc' = "set_arg1"
    /\ UNCHANGED <<term, bstatus, program_handle, h, event, output_data, i, printed>>

set_arg1 ==
    /\ Running("set_arg1")
    /\ \E st \in StatusSet :
        /\ status' = BitOr(status, st)
        /\ calls' = Append(calls, Call("clSetKernelArg", "1", st))
    /\ pc' = "set_arg2"
    /\ UNCHANGED <<term, bstatus, program_handle, h, event, output_data, i, printed>>

\* Lines 159-161: the third bind and the single check of the combined flag.
set_arg2 ==
    /\ Running("set_arg2")
    /\ \E st \in StatusSet :
        /\ status' = BitOr(status, st)
        /\ calls' = Append(calls, Call("clSetKernelArg", "2", st))
        /\ CheckThen(BitOr(status, st), "create kernel failed", "enqueue")
    /\ UNCHANGED <<bstatus, program_handle, h, event, output_data, i>>

\* ---------------------------------------------------- dispatch (167-171)
\* Line 167: timing_event is written only by a successful submission.
enqueue ==
    /\ Running("enqueue")
    /\ \E st \in StatusSet :
        /\ status' = st
        /\ calls' = Append(calls, Call("clEnqueueNDRangeKernel", "kernel", st))
        /\ event' = IF st < 0 THEN event ELSE "valid"
    /\ pc' = "wait"
    /\ UNCHANGED <<term, bstatus, program_handle, h, output_data, i, printed>>

\* Line 169: the status of the wait is discarded.  Waiting on an event that
\* was never written is undefined: the call returns or the process dies.
wait_for_events ==
    /\ Running("wait")
    /\ calls' = Append(calls, Call("clWaitForEvents", event, 0))
    /\ \/ /\ event' = IF event = "valid" THEN "complete" ELSE event
          /\ pc' = "check_enqueue"
          /\ term' = term
       \/ /\ event # "valid"
          /\ event' = event
          /\ pc' = pc
          /\ term' = "crash"
    /\ UNCHANGED <<status, bstatus, program_handle, h, output_data, i, printed>>

\* The dispatch without the check of line 171.
check_enqueue_skipped ==
    /\ Running("check_enqueue")
    /\ pc' = "profiling"
    /\ UNCHANGED <<term, printed, status, bstatus, program_handle, h, event,
                   output_data, i, calls>>

\* Line 171.
check_enqueue ==
    /\ Running("check_enqueue")
    /\ CheckThen(status, "clEnqueueNDRangeKernel failed", "profiling")
    /\ UNCHANGED <<status, bstatus, program_handle, h, event, output_data, i, calls>>

\* Lines 173-187: four profiling queries, then the report.
ProfilingOrder == <<"QUEUED", "SUBMIT", "START", "END">>

profiling ==
    /\ Running("profiling")
    /\ calls' = calls \o [k \in 1 .. 4 |->
                            Call("clGetEventProfilingInfo", ProfilingOrder[k], 0)]
    /\ printed' = Append(printed, Line("timestamps", <<>>))
    /\ pc' = "read_buffer"
    /\ UNCHANGED <<term, status, bstatus, program_handle, h, event, output_data, i>>

\* ------------------------------------------------------ verify (190-213)
\* Lines 190-192: blocking read; a failed read leaves output_data alone.
read_buffer ==
    /\ Running("read_buffer")
    /\ \E st \in StatusSet :
        /\ status' = st
        /\ calls' = Append(calls, Call("clEnqueueReadBuffer", "output_buffer", st))
        /\ IF st < 0
           THEN output_data' = output_data
           ELSE \E out \in [Index -> UNION {DeviceValues(k) : k \in Index}] :
                    /\ \A k \in Index : out[k] \in DeviceValues(k)
                    /\ output_data' = out
        /\ CheckThen(st, "clEnqueueReadBuffer failed", "finish")
    /\ UNCHANGED <<bstatus, program_handle, h, event, i>>

\* Lines 195-202: the status of clFinish is stored and never looked at.
finish ==
    /\ Running("finish")
    /\ \E st \in StatusSet :
        /\ status' = st
        /\ calls' = Append(calls, Call("clFinish", "queue", st))
    /\ printed' = Append(printed, Line("cpu all cost", <<>>))
    /\ pc' = "verify"
    /\ UNCHANGED <<term, bstatus, program_handle, h, event, output_data, i>>

\* Lines 204-210: one iteration of the comparison loop.
verify ==
    /\ Running("verify")
    /\ i < ARRAY_SIZE
    /\ IF Mismatch(output_data[i], i) /\ check_status(-1)
       THEN /\ printed' = printed \o
                   <<Line("mismatch", <<i, bias_data(i) + input_data(i), output_data[i]>>),
                     Line("CHECK RESULT FAILED", <<>>)>>
            /\ term' = "exit1"
            /\ UNCHANGED <<pc, i>>
       ELSE /\ i' = i + 1
            /\ pc' = IF i + 1 < ARRAY_SIZE THEN "verify" ELSE "all_passed"
            /\ term' = term
            /\ printed' = IF Mismatch(output_data[i], i)
                          THEN Append(printed, Line("mismatch",
                                   <<i, bias_data(i) + input_data(i), output_data[i]>>))
                          ELSE printed
    /\ UNCHANGED <<status, bstatus, program_handle, h, event, output_data, calls>>

\* Line 212.
all_passed ==
    /\ Running("all_passed")
    /\ printed' = Append(printed, Line("ALL PASSED", <<>>))
    /\ pc' = "dtor"
    /\ UNCHANGED <<term, status, bstatus, program_handle, h, event, output_data, i, calls>>

\* Fields released by ~Runtime (lines 18-23), in the order of the calls.
DtorOrder == <<"kernel", "input_buffer", "output_buffer", "queue", "program", "context">>

RECURSIVE ReleaseAll(_, _)
ReleaseAll(hs, order) ==
    IF order = <<>> THEN hs
    ELSE ReleaseAll(Release(hs, Head(order)), Tail(order))

\* Line 213 and ~Runtime: return 0 destroys `runtime`.
dtor ==
    /\ Running("dtor")
    /\ calls' = calls \o [k \in 1 .. Len(DtorOrder) |-> Call("clRelease", DtorOrder[k], 0)]
    /\ h' = ReleaseAll(h, DtorOrder)
    /\ term' = "return0"
    /\ pc' = "done"
    /\ UNCHANGED <<status, bstatus, program_handle, event, output_data, i, printed>>

Next ==
    \/ init_device \/ create_context
    \/ open_source \/ read_source \/ create_program \/ build_program
    \/ create_queue \/ create_kernel
    \/ create_input \/ create_bias \/ create_output
    \/ set_arg0 \/ set_arg1 \/ set_arg2
    \/ enqueue \/ wait_for_events \/ check_enqueue \/ profiling
    \/ read_buffer \/ finish \/ verify \/ all_passed \/ dtor

Spec == Init /\ [][Next]_vars

TypeOK ==
    /\ term \in {"running", "exit1", "return0", "crash"}
    /\ status \in Int
    /\ i \in 0 .. ARRAY_SIZE
    /\ h \in [Handles -> {"null", "live", "released"}]


\* ------------------------------------------------------------ observers
\* The calls made so far to one API function, in order.
CallsOf(fn) == SelectSeq(calls, LAMBDA c : c.fn = fn)

Plat == CallsOf("clGetPlatformIDs")
Enum == CallsOf("clGetDeviceIDs")
Bufs == CallsOf("clCreateBuffer")
Binds == CallsOf("clSetKernelArg")
Enq == CallsOf("clEnqueueNDRangeKernel")
Waits == CallsOf("clWaitForEvents")
Prof == CallsOf("clGetEventProfilingInfo")
Reads == CallsOf("clEnqueueReadBuffer")
Fin == CallsOf("clFinish")
Seeks == CallsOf("fseek")
Releases == CallsOf("clRelease")

Args(cs) == [k \in 1 .. Len(cs) |-> cs[k].arg]
AnyNeg(cs) == \E k \in 1 .. Len(cs) : cs[k].st < 0
Said(text) == \E k \in 1 .. Len(printed) : printed[k].text = text

\* Position of the first call to fn (0 when there is none).
FirstPos(fn) ==
    IF \E k \in 1 .. Len(calls) : calls[k].fn = fn
    THEN CHOOSE k \in 1 .. Len(calls) :
            /\ calls[k].fn = fn
            /\ \A j \in 1 .. (k - 1) : calls[j].fn # fn
    ELSE 0

\* ------------------------------------------------------------------- C7
\* C7: device selection tries the GPU class first and the CPU class iff the
\* GPU enumeration returned exactly CL_DEVICE_NOT_FOUND; a failed platform
\* query, any other negative GPU status or a negative CPU status ends the
\* process with exit status 1 without a further enumeration; a device is
\* returned only when the last enumeration was non-negative.
C7_DeviceSelection ==
    /\ Len(Plat) <= 1
    /\ Len(Enum) <= 2
    /\ Len(Enum) >= 1 =>
          /\ Enum[1].arg = "GPU"
          /\ Len(Plat) = 1 /\ Plat[1].st >= 0
    /\ (Len(Enum) = 2) <=> (Len(Enum) >= 1 /\ Enum[1].st = CL_DEVICE_NOT_FOUND)
    /\ Len(Enum) = 2 => Enum[2].arg = "CPU"
    /\ (Len(Plat) = 1 /\ Plat[1].st < 0) =>
          term = "exit1" /\ pc = "init_device" /\ Enum = <<>>
    /\ (Len(Enum) >= 1 /\ Enum[Len(Enum)].st < 0) =>
          term = "exit1" /\ pc = "init_device"
    /\ h["device"] # "null" => (Len(Enum) >= 1 /\ Enum[Len(Enum)].st >= 0)

\* The GPU class was not found and the CPU retry produced the device.
C7_Witness ==
    /\ Len(Enum) = 2
    /\ Enum[1].st = CL_DEVICE_NOT_FOUND
    /\ h["device"] = "live"

\* ------------------------------------------------------------------- C8
\* C8: the binds of slots 0, 1, 2 are all attempted whatever the earlier
\* statuses; the combined flag is checked once after the third bind, and the
\* process exits before dispatch iff at least one bind was negative.
C8_ArgBind ==
    /\ Len(Binds) <= 3
    /\ Args(Binds) = SubSeq(<<"0", "1", "2">>, 1, Len(Binds))
    /\ (Len(Binds) >= 1 /\ pc \notin {"set_arg1", "set_arg2"}) => Len(Binds) = 3
    /\ Len(Binds) \in {1, 2} => term = "running"
    /\ Len(Binds) = 3 =>
          /\ (term = "exit1" /\ pc = "set_arg2") <=> AnyNeg(Binds)
          /\ AnyNeg(Binds) => Enq = <<>>
          /\ AnyNeg(Binds) => status < 0

\* Slot 0 failed, slots 1 and 2 were still bound and succeeded, and the
\* process exited at the check.
C8_Witness ==
    /\ Len(Binds) = 3
    /\ Binds[1].st < 0 /\ Binds[2].st = 0 /\ Binds[3].st = 0
    /\ term = "exit1"

\* ------------------------------------------------------------------- C9
\* C9: at most one dispatch per run; the wait precedes the check of the
\* submission status; the four timestamps are read, in the order queued,
\* submit, start, end, only after the wait returned and the submission was
\* non-negative; a negative submission ends the process with exit status 1
\* once the wait has returned, with no timestamp read or printed and no
\* readback issued.
C9_Dispatch ==
    /\ Len(Enq) <= 1
    /\ Len(Waits) <= 1
    /\ Len(Waits) = 1 => (Len(Enq) = 1 /\ FirstPos("clEnqueueNDRangeKernel") < FirstPos("clWaitForEvents"))
    /\ (Said("clEnqueueNDRangeKernel failed") \/ Prof # <<>>) => Len(Waits) = 1
    /\ Prof # <<>> =>
          /\ Enq[1].st >= 0
          /\ Args(Prof) = <<"QUEUED", "SUBMIT", "START", "END">>
          /\ FirstPos("clWaitForEvents") < FirstPos("clGetEventProfilingInfo")
    /\ (Said("timestamps") \/ Reads # <<>>) => Len(Prof) = 4
    /\ AnyNeg(Enq) =>
          /\ Prof = <<>> /\ Reads = <<>> /\ ~Said("timestamps")
          /\ pc \in {"wait", "check_enqueue"}
          /\ term # "return0"
          /\ (pc = "check_enqueue" /\ term # "running") =>
                (term = "exit1" /\ Said("clEnqueueNDRangeKernel failed"))
          /\ pc = "wait" => term \in {"running", "crash"}

\* The submission failed, the wait returned, and the process exited.
C9_Witness ==
    /\ AnyNeg(Enq)
    /\ Len(Waits) = 1
    /\ pc = "check_enqueue"
    /\ term = "exit1"


\* ------------------------------------------------------------------- C1
\* A negative status other than the GPU "not found" that triggers the retry.
Fatal(k) ==
    /\ calls[k].st < 0
    /\ ~(calls[k].fn = "clGetDeviceIDs" /\ calls[k].arg = "GPU"
         /\ FallbackToCPU(calls[k].st))

\* C1: the pipeline is linear, and a source file that cannot be opened, a
\* negative status of any device-API call or a detected mismatch sends the
\* process straight to exit status 1: nothing of a later stage is executed
\* after it, and "ALL PASSED" with exit status 0 is reached only when none
\* of these failures happened.
C1_FailStop ==
    /\ \A k \in 1 .. Len(calls) :
          Fatal(k) =>
             /\ \A j \in (k + 1) .. Len(calls) : calls[j].fn = "clGetProgramBuildInfo"
             /\ term # "return0"
             /\ ~Said("ALL PASSED")
    /\ program_handle = "null" => (Seeks = <<>> /\ term \notin {"return0", "crash"})
    /\ Said("mismatch") => term = "exit1"
    /\ term = "return0" => Said("ALL PASSED")

\* ------------------------------------------------------------------- C2
\* C2: on normal process end every acquired handle has been released exactly
\* once, in the order kernel, input, bias and output buffer, queue, program,
\* context.
C2_ReleaseAll ==
    term = "return0" =>
       /\ \A n \in Handles \ {"device"} : h[n] # "live"
       /\ Args(Releases) = <<"kernel", "input_buffer", "bias_buffer",
                             "output_buffer", "queue", "program", "context">>

\* ------------------------------------------------------------------- C3
\* C3: when the source file cannot be opened the process exits with status 1
\* inside build_program before the file handle is used and before any
\* device buffer is allocated.
C3_SourceNotFound ==
    program_handle = "null" =>
       /\ Seeks = <<>>
       /\ Bufs = <<>>
       /\ term \in {"running", "exit1"}

\* ------------------------------------------------------------------- C4
\* C4: a negative status of any of the three buffer creations ends the
\* process with exit status 1 before any kernel argument is bound and before
\* the dispatch, also when the later creations succeed.
C4_Allocation ==
    AnyNeg(Bufs) =>
       /\ Binds = <<>>
       /\ Enq = <<>>
       /\ term # "return0"
       /\ Len(Bufs) = 3 => term = "exit1"

\* ------------------------------------------------------------------- C5
\* Indices at which the output read back differs from bias + input.
Differs == {k \in Index : output_data[k] # bias_data(k) + input_data(k)}

Min(S) == CHOOSE m \in S : \A n \in S : m <= n

\* C5: once the output has been read back, a difference at some index makes
\* verification exit with status 1 at the smallest differing index, which it
\* reports with the expected and the actual value; no later index is
\* compared and "ALL PASSED" is not printed.
C5_FirstMismatch ==
    (Reads # <<>> /\ ~AnyNeg(Reads) /\ Differs # {}) =>
       /\ i <= Min(Differs)
       /\ ~Said("ALL PASSED")
       /\ term # "return0"
       /\ term = "exit1" =>
             /\ i = Min(Differs)
             /\ \E k \in 1 .. Len(printed) :
                   printed[k] = Line("mismatch",
                       <<i, bias_data(i) + input_data(i), output_data[i]>>)

\* ------------------------------------------------------------------- C6
\* C6: the blocking read comes first, then the queue drain; a negative status
\* of either ends the process with exit status 1 before any element is
\* compared and before "ALL PASSED" can be printed.
C6_ReadThenDrain ==
    /\ Fin # <<>> => (Reads # <<>> /\ FirstPos("clEnqueueReadBuffer") < FirstPos("clFinish"))
    /\ AnyNeg(Reads) => (term = "exit1" /\ Fin = <<>> /\ i = 0)
    /\ AnyNeg(Fin) => (i = 0 /\ ~Said("ALL PASSED") /\ term # "return0")

\* ------------------------------------------------------------------ C10
\* C10: when the process ends on a fatal error no acquired handle is still
\* held.
C10_ReleaseOnError ==
    term = "exit1" => \A n \in Handles \ {"device"} : h[n] # "live"

====
